---------------------------- MODULE Spec2Model ----------------------------
(***************************************************************************)
(* Recitation verification and progress engine of rizqa-ai.                *)
(*                                                                         *)
(* The model covers TestScreen.tsx (cursor state, loadProgress,            *)
(* saveProgress, loadCurrentVerse, normalizeArabic, calculateSimilarity,   *)
(* transcribeAudio, startRecording, stopRecording, moveToNextVerse,        *)
(* leaving the screen), HomeScreen.tsx (flattened corpus, loadProgress,    *)
(* getCurrentVerse) and the AsyncStorage keys currentSurah / currentAyah.  *)
(*                                                                         *)
(* Every async function is cut at its awaits: one action per continuation. *)
(* Text is a sequence of UTF-16 code units; a stored value is a sequence   *)
(* of one-character strings.                                               *)
(***************************************************************************)
EXTENDS Integers, Sequences, FiniteSets

(***************************************************************************)
(* Bounds of the model.                                                    *)
(***************************************************************************)
\* Stop & Test presses explored in one behaviour.
MaxAttempts == 2
\* TestScreen mounts (navigation.navigate('Test')) explored in one behaviour.
MaxMounts == 2

(***************************************************************************)
(* Program constants.                                                      *)
(***************************************************************************)
\* moveToNextVerse: if (currentSurah < 114)
LastSurah == 114
\* stopRecording: const passed = similarity >= 70
Threshold == 70
\* The value parseInt gives for a string with no leading number.  It is a
\* number that compares false with everything; the sentinel lies outside
\* every number the model otherwise produces.
NaN == -1000000

(***************************************************************************)
(* Numbers as JavaScript compares them.                                    *)
(***************************************************************************)
\* a < b, false when either side is NaN
NumLt(a, b) == a # NaN /\ b # NaN /\ a < b

\* a === b on numbers, false when either side is NaN
NumEq(a, b) == a # NaN /\ b # NaN /\ a = b

Min3(a, b, c) == IF a <= b /\ a <= c THEN a ELSE IF b <= c THEN b ELSE c

Max2(a, b) == IF a >= b THEN a ELSE b

(***************************************************************************)
(* Number.prototype.toString and parseInt on stored values.                *)
(***************************************************************************)
DigitChars == <<"0", "1", "2", "3", "4", "5", "6", "7", "8", "9">>

RECURSIVE NatToString(_)
NatToString(n) ==
  IF n < 10 THEN <<DigitChars[n + 1]>>
  ELSE NatToString(n \div 10) \o <<DigitChars[(n % 10) + 1]>>

\* surah.toString(), ayah.toString()
toString(n) ==
  IF n = NaN THEN <<"N", "a", "N">>
  ELSE IF n < 0 THEN <<"-">> \o NatToString(0 - n)
  ELSE NatToString(n)

IsDigit(ch) == \E d \in 1..10 : DigitChars[d] = ch

DigitValue(ch) == (CHOOSE d \in 1..10 : DigitChars[d] = ch) - 1

\* StrWhiteSpaceChar of the one-character strings the model stores
IsStrSpace(ch) == ch \in {" ", "\t", "\n"}

RECURSIVE SkipSpace(_)
SkipSpace(s) ==
  IF s # <<>> /\ IsStrSpace(Head(s)) THEN SkipSpace(Tail(s)) ELSE s

\* the value of the longest prefix of digits, acc the value read so far
RECURSIVE ParseDigits(_, _)
ParseDigits(s, acc) ==
  IF s # <<>> /\ IsDigit(Head(s))
  THEN ParseDigits(Tail(s), (acc * 10) + DigitValue(Head(s)))
  ELSE acc

\* a parseInt that reads one digit only
ParseIntFirstDigit(str) ==
  IF str # <<>> /\ IsDigit(Head(str)) THEN DigitValue(Head(str)) ELSE NaN

\* parseInt(savedSurah): leading white space skipped, an optional sign, then
\* the longest run of decimal digits; NaN when there is no digit.
ParseInt(str) ==
  LET s == SkipSpace(str)
      neg == s # <<>> /\ Head(s) = "-"
      body == IF s # <<>> /\ Head(s) \in {"-", "+"} THEN Tail(s) ELSE s
  IN IF body = <<>> \/ ~IsDigit(Head(body)) THEN NaN
     ELSE IF neg THEN 0 - ParseDigits(body, 0) ELSE ParseDigits(body, 0)

(***************************************************************************)
(* normalizeArabic.                                                        *)
(***************************************************************************)
\* [\u064B-\u065F\u0670]
IsDiacritic(c) == (1611 <= c /\ c <= 1631) \/ c = 1648

\* [\u0600-\u06FF\u0750-\u077F\u08A0-\u08FF\uFB50-\uFDFF\uFE70-\uFEFF]
IsArabicBlock(c) ==
  \/ (1536 <= c /\ c <= 1791)
  \/ (1872 <= c /\ c <= 1919)
  \/ (2208 <= c /\ c <= 2303)
  \/ (64336 <= c /\ c <= 65023)
  \/ (65136 <= c /\ c <= 65279)

\* \s of a JavaScript regular expression, which is also what trim() removes
IsWhiteSpace(c) ==
  \/ c \in {9, 10, 11, 12, 13, 32, 160, 5760, 8232, 8233, 8239, 8287, 12288, 65279}
  \/ (8192 <= c /\ c <= 8202)

\* .replace(/[\u064B-\u065F]/g, ''): the superscript alef is kept
RemoveHarakat(text) == SelectSeq(text, LAMBDA c : ~(1611 <= c /\ c <= 1631))

\* .replace(/[\u064B-\u065F\u0670]/g, '')
RemoveDiacritics(text) == SelectSeq(text, LAMBDA c : ~IsDiacritic(c))

\* a class that also keeps the digits 0-9
KeepArabicAndDigits(text) ==
  SelectSeq(text, LAMBDA c : IsArabicBlock(c) \/ (48 <= c /\ c <= 57))

\* .replace(/[^\u0600-\u06FF\u0750-\u077F\u08A0-\u08FF\uFB50-\uFDFF\uFE70-\uFEFF]/g, '')
KeepArabic(text) == SelectSeq(text, LAMBDA c : IsArabicBlock(c))

\* .replace(/\s+/g, ' '): each maximal run of white space becomes one U+0020
RECURSIVE CollapseWhiteSpace(_)
CollapseWhiteSpace(text) ==
  IF text = <<>> THEN <<>>
  ELSE IF IsWhiteSpace(Head(text))
       THEN IF Len(text) > 1 /\ IsWhiteSpace(text[2])
            THEN CollapseWhiteSpace(Tail(text))
            ELSE <<32>> \o CollapseWhiteSpace(Tail(text))
       ELSE <<Head(text)>> \o CollapseWhiteSpace(Tail(text))

RECURSIVE TrimStart(_)
TrimStart(text) ==
  IF text # <<>> /\ IsWhiteSpace(Head(text)) THEN TrimStart(Tail(text)) ELSE text

RECURSIVE TrimEnd(_)
TrimEnd(text) ==
  IF text # <<>> /\ IsWhiteSpace(text[Len(text)])
  THEN TrimEnd(SubSeq(text, 1, Len(text) - 1))
  ELSE text

\* String.prototype.trim
Trim(text) == TrimEnd(TrimStart(text))

normalizeArabic(text) ==
  Trim(CollapseWhiteSpace(KeepArabic(RemoveDiacritics(text))))

(***************************************************************************)
(* calculateSimilarity.  The result is the exact rational num / den; the   *)
(* code's double (maxLen - distance) / maxLen * 100 compares with 70 as    *)
(* the rational does for every length below 3000.                          *)
(***************************************************************************)
\* a row filled without the substitution term matrix[i - 1][j - 1] + 1
RECURSIVE FillRowNoSubstitution(_, _, _, _)
FillRowNoSubstitution(acc, prev, ch, s2) ==
  LET j == Len(acc)
  IN IF j > Len(s2) THEN acc
     ELSE FillRowNoSubstitution(
            Append(acc,
                   IF ch = s2[j]
                   THEN prev[j]
                   ELSE Min3(prev[j + 1] + 1, acc[j] + 1, acc[j] + 1)),
            prev, ch, s2)

\* matrix[i] for i >= 1: acc holds matrix[i][0..j-1], prev is matrix[i-1]
RECURSIVE FillRow(_, _, _, _)
FillRow(acc, prev, ch, s2) ==
  LET j == Len(acc)
  IN IF j > Len(s2) THEN acc
     ELSE FillRow(Append(acc,
                         IF ch = s2[j]
                         THEN prev[j]
                         ELSE Min3(prev[j + 1] + 1, acc[j] + 1, prev[j] + 1)),
                  prev, ch, s2)

\* rows 1..len1 of the matrix, row being matrix[i-1]; the result is the last row
RECURSIVE FillMatrix(_, _, _, _)
FillMatrix(row, i, s1, s2) ==
  IF i > Len(s1) THEN row
  ELSE FillMatrix(FillRow(<<i>>, row, s1[i], s2), i + 1, s1, s2)

\* matrix[len1][len2] of a grid whose first row was left at 0
DistanceZeroFirstRow(s1, s2) ==
  FillMatrix([j \in 1..(Len(s2) + 1) |-> 0], 1, s1, s2)[Len(s2) + 1]

\* matrix[len1][len2]
Distance(s1, s2) ==
  FillMatrix([j \in 1..(Len(s2) + 1) |-> j - 1], 1, s1, s2)[Len(s2) + 1]

\* a similarity computed without `if (normalized1 === normalized2) return 100`
calculateSimilarityNoShortcut(text1, text2) ==
  LET normalized1 == normalizeArabic(text1)
      normalized2 == normalizeArabic(text2)
      maxLen == Max2(Len(normalized1), Len(normalized2))
  IN [num |-> (maxLen - Distance(normalized1, normalized2)) * 100,
      den |-> maxLen]

\* a similarity whose maxLen is the length of the first text
calculateSimilarityByFirstLength(text1, text2) ==
  LET normalized1 == normalizeArabic(text1)
      normalized2 == normalizeArabic(text2)
      maxLen == Len(normalized1)
  IN IF normalized1 = normalized2 THEN [num |-> 100, den |-> 1]
     ELSE [num |-> (maxLen - Distance(normalized1, normalized2)) * 100,
           den |-> maxLen]

calculateSimilarity(text1, text2) ==
  LET normalized1 == normalizeArabic(text1)
      normalized2 == normalizeArabic(text2)
      maxLen == Max2(Len(normalized1), Len(normalized2))
  IN IF normalized1 = normalized2 THEN [num |-> 100, den |-> 1]
     ELSE [num |-> (maxLen - Distance(normalized1, normalized2)) * 100,
           den |-> maxLen]

\* similarity > 70
PassedAbove(similarity) == similarity.num > Threshold * similarity.den

\* similarity >= 70
Passed(similarity) == similarity.num >= Threshold * similarity.den

(***************************************************************************)
(* The corpus, quranData: chapter key -> ordered verses numbered from 1.   *)
(* The data file is not among the sources; the model takes the 114         *)
(* chapters with their verse counts (chapter 1 has 7 verses) and gives     *)
(* every verse a text that differs from its successor's: a vocalised       *)
(* three-letter word, a space and seven letters that depend on the chapter *)
(* and the verse.                                                          *)
(***************************************************************************)
VerseCounts ==
  <<7, 286, 200, 176, 120, 165, 206, 75, 129, 109, 123, 111, 43, 52, 99, 128,
    111, 110, 98, 135, 112, 78, 118, 64, 77, 227, 93, 88, 69, 60, 34, 30, 73,
    54, 45, 83, 182, 88, 75, 85, 54, 53, 89, 59, 37, 35, 38, 29, 18, 45, 60,
    49, 62, 55, 78, 96, 29, 22, 24, 13, 14, 11, 11, 18, 12, 12, 30, 52, 52,
    44, 28, 28, 20, 56, 40, 31, 50, 40, 46, 42, 29, 19, 36, 25, 22, 17, 19,
    26, 30, 20, 15, 21, 11, 8, 8, 19, 5, 8, 8, 11, 11, 8, 3, 9, 5, 4, 7, 3,
    6, 3, 5, 4, 5, 6>>

\* (quranData[chapterKey] || []).length
VerseCount(surah) ==
  IF surah \in 1..Len(VerseCounts) THEN VerseCounts[surah] ELSE 0

\* verses.find((v) => v.verse === currentAyah) finds a verse
HasVerse(surah, ayah) == ayah \in 1..VerseCount(surah)

VerseLetters == <<1585, 1581, 1605, 1606, 1610>>

\* verse.text of the verse found
Text(surah, ayah) ==
  <<1576, 1616, 1587, 1618, 1605, 1616, 32>> \o
  [k \in 1..7 |-> VerseLetters[(((surah * k) + (ayah * (k + 1))) % 5) + 1]]

\* the number of verses of chapters lo..hi, summed by halves
RECURSIVE CountVerses(_, _)
CountVerses(lo, hi) ==
  IF lo > hi THEN 0
  ELSE IF lo = hi THEN VerseCount(lo)
  ELSE CountVerses(lo, (lo + hi) \div 2) + CountVerses(((lo + hi) \div 2) + 1, hi)

\* HomeScreen: number of entries pushed to verses before chapter `surah`
VersesBefore(surah) == CountVerses(1, surah - 1)

\* HomeScreen: allVerses.length
AllVersesLength == VersesBefore(Len(VerseCounts) + 1)

\* HomeScreen: verses.findIndex((v) => v.chapter === surah && v.verse.verse === ayah)
FindIndex(surah, ayah) ==
  IF HasVerse(surah, ayah) THEN VersesBefore(surah) + (ayah - 1) ELSE -1

(***************************************************************************)
(* What the transcription provider may answer for a recitation of `target`:*)
(* nothing, the verse without its diacritics, the verse with its last      *)
(* three or four letters misheard.                                         *)
(***************************************************************************)
Misheard(text, k) ==
  SubSeq(text, 1, Len(text) - k) \o [i \in 1..k |-> 1583]

Recitations(target) ==
  { <<>>, RemoveDiacritics(target), Misheard(target, 3), Misheard(target, 4) }

\* result.text as the server sends it for a recitation of `target`: one of the
\* recitations, or nothing but white space
ServerTexts(target) == Recitations(target) \cup {<<32, 32>>}

\* the texts of the corpus (the letters of Text repeat with period 5)
AllTexts == { Text(surah, ayah) : surah \in 1..5, ayah \in 1..5 }

\* calculateSimilarity(transcription, verseText), evaluated once for every
\* verse text and every answer of the provider
SimilarityOf ==
  [target \in AllTexts |->
     [transcription \in Recitations(target) |->
        calculateSimilarity(transcription, target)]]

\* const similarity = calculateSimilarity(transcription, verseText)
Similarity(transcription, target) ==
  IF target \in AllTexts /\ transcription \in Recitations(target)
  THEN SimilarityOf[target][transcription]
  ELSE calculateSimilarity(transcription, target)

(***************************************************************************)
(* AsyncStorage: a key is absent or holds a string.                        *)
(***************************************************************************)
Absent == [has |-> FALSE, str |-> <<>>]

Item(str) == [has |-> TRUE, str |-> str]

\* if (savedSurah): null and '' are falsy
Truthy(item) == item.has /\ item.str # <<>>

StoreOf(surah, ayah) ==
  [currentSurah |-> Item(toString(surah)), currentAyah |-> Item(toString(ayah))]

EmptyStore == [currentSurah |-> Absent, currentAyah |-> Absent]

\* The store at start-up when only saveProgress ever wrote it.
SavedStores ==
  { EmptyStore, StoreOf(1, 7), StoreOf(2, 286), StoreOf(LastSurah, 6) }

\* The store after saveProgress(surah, ayah), for every verse of the corpus.
CorpusStores ==
  UNION { { StoreOf(surah, ayah) : ayah \in 1..VerseCount(surah) } :
          surah \in 1..LastSurah }

\* The store at start-up when something else wrote the two keys.
ForeignStores ==
  { [currentSurah |-> Item(<<"9", "9", "9", "9">>), currentAyah |-> Item(<<"1">>)],
    [currentSurah |-> Item(<<"a", "b", "c">>), currentAyah |-> Item(<<"1">>)],
    [currentSurah |-> Item(<<"2">>), currentAyah |-> Absent],
    [currentSurah |-> Item(<<"1">>), currentAyah |-> Item(<<"8">>)] }

(***************************************************************************)
(* State.                                                                  *)
(***************************************************************************)
VARIABLES
  storage,           \* AsyncStorage: currentSurah, currentAyah
  screen,            \* the screen on top of the stack: "Home" or "Test"
  mounts,            \* TestScreen instances mounted so far; the last is the mounted one
  currentSurah,      \* TestScreen useState(1)
  currentAyah,       \* TestScreen useState(1)
  verseText,         \* TestScreen useState('')
  isRecording,       \* TestScreen useState(false)
  isProcessing,      \* TestScreen useState(false)
  recording,         \* TestScreen useState(null): TRUE when an Audio.Recording is held
  testResult,        \* TestScreen useState(null): "pass", "fail" or "null"
  transcribedText,   \* TestScreen useState('')
  currentVerseIndex, \* HomeScreen useState(0)
  loading,           \* HomeScreen useState(true)
  tasks,             \* async functions and timers suspended at an await
  attempts,          \* stopRecording calls made so far
  finished,          \* history: how the stopRecording that ended in the last step ended
  loaded,            \* history: what the loadProgress that ended in the last step read and set
  saves,             \* history: the initial store, then the arguments of each saveProgress call
  completed,         \* history: Alert 'You have completed all verses!' was shown
  whisperService     \* the singleton WhisperService: modelLoaded, whisperContext, loadError

testVars ==
  <<currentSurah, currentAyah, verseText, isRecording, isProcessing, recording,
    testResult, transcribedText>>

homeVars == <<currentVerseIndex, loading>>

histVars == <<finished, loaded, saves, completed>>

vars ==
  <<storage, screen, mounts, testVars, homeVars, tasks, attempts, histVars,
    whisperService>>

(***************************************************************************)
(* Suspended async work.  `gen` is the TestScreen instance whose closure   *)
(* the function runs in (0: HomeScreen); surah, ayah and target are the    *)
(* currentSurah, currentAyah and verseText of the render that closure      *)
(* belongs to; saved is the value read by the first getItem.               *)
(***************************************************************************)
NewTask(kind, gen, id, pc) ==
  [kind |-> kind, gen |-> gen, id |-> id, pc |-> pc,
   surah |-> 0, ayah |-> 0, target |-> <<>>, saved |-> Absent, verdict |-> "null"]

\* setState of an unmounted component changes nothing
Mounted(t) == screen = "Test" /\ t.gen = mounts

\* new WhisperService(): modelLoaded = false, whisperContext = null,
\* loadError = null
NewService == [modelLoaded |-> FALSE, whisperContext |-> FALSE, loadError |-> FALSE]

\* the similarity of an attempt that never called calculateSimilarity
NoScore == [num |-> 0, den |-> 0]

NoAttempt ==
  [id |-> 0, gen |-> 0, outcome |-> "none", transcription |-> <<>>,
   target |-> <<>>, similarity |-> NoScore, verdict |-> "null"]

NoLoad ==
  [who |-> "none", surah |-> Absent, ayah |-> Absent, setSurah |-> 0, setAyah |-> 0]

\* loadCurrentVerse with the cursor (surah, ayah): setVerseText only when found
loadCurrentVerse(surah, ayah, text) ==
  IF HasVerse(surah, ayah) THEN Text(surah, ayah) ELSE text

\* useEffect(loadCurrentVerse, [currentSurah, currentAyah]) after a render
\* whose cursor is (surah, ayah)
VerseTextAfter(surah, ayah) ==
  IF <<surah, ayah>> = <<currentSurah, currentAyah>> THEN verseText
  ELSE loadCurrentVerse(surah, ayah, verseText)

\* HomeScreen getCurrentVerse() returns null
GetCurrentVerseIsNull ==
  AllVersesLength = 0 \/ currentVerseIndex >= AllVersesLength

\* a step in which no stopRecording and no loadProgress ends
NothingEnds ==
  finished' = NoAttempt /\ loaded' = NoLoad /\ UNCHANGED whisperService

InitWith(stores) ==
  /\ storage \in stores
  /\ screen = "Home"
  /\ mounts = 0
  /\ currentSurah = 1
  /\ currentAyah = 1
  /\ verseText = <<>>
  /\ isRecording = FALSE
  /\ isProcessing = FALSE
  /\ recording = FALSE
  /\ testResult = "null"
  /\ transcribedText = <<>>
  /\ currentVerseIndex = 0
  /\ loading = TRUE
  /\ tasks = {NewTask("homeLoadProgress", 0, 0, "getSurah")}
  /\ attempts = 0
  /\ finished = NoAttempt
  /\ loaded = NoLoad
  /\ saves = <<storage>>
  /\ completed = FALSE
  /\ whisperService = NewService

Init == InitWith(SavedStores)

InitAnyStore == InitWith(SavedStores \cup ForeignStores)

(***************************************************************************)
(* HomeScreen.loadProgress, run by the mount effect and by useFocusEffect. *)
(***************************************************************************)
HomeGetSurah(t) ==
  /\ t \in tasks /\ t.kind = "homeLoadProgress" /\ t.pc = "getSurah"
  /\ tasks' = (tasks \ {t}) \cup {[t EXCEPT !.pc = "getAyah", !.saved = storage.currentSurah]}
  /\ UNCHANGED <<storage, screen, mounts, testVars, homeVars, attempts, saves, completed>>
  /\ NothingEnds

\* the index setCurrentVerseIndex receives, or the index kept
HomeIndex(savedSurah, savedAyah, index) ==
  IF Truthy(savedSurah) /\ Truthy(savedAyah)
     /\ FindIndex(ParseInt(savedSurah.str), ParseInt(savedAyah.str)) # -1
  THEN FindIndex(ParseInt(savedSurah.str), ParseInt(savedAyah.str))
  ELSE index

HomeGetAyah(t) ==
  /\ t \in tasks /\ t.kind = "homeLoadProgress" /\ t.pc = "getAyah"
  /\ currentVerseIndex' = HomeIndex(t.saved, storage.currentAyah, currentVerseIndex)
  /\ loading' = FALSE
  /\ tasks' = tasks \ {t}
  /\ loaded' = [who |-> "HomeScreen", surah |-> t.saved, ayah |-> storage.currentAyah,
                setSurah |-> 0, setAyah |-> 0]
  /\ finished' = NoAttempt
  /\ UNCHANGED whisperService
  /\ UNCHANGED <<storage, screen, mounts, testVars, attempts, saves, completed>>

(***************************************************************************)
(* Navigation.                                                             *)
(***************************************************************************)
\* navigation.navigate('Test'): a new TestScreen mounts, its first render
\* shows the default cursor, then both mount effects run
OpenTest ==
  /\ screen = "Home" /\ ~loading /\ mounts < MaxMounts
  /\ screen' = "Test"
  /\ mounts' = mounts + 1
  /\ currentSurah' = 1
  /\ currentAyah' = 1
  /\ verseText' = loadCurrentVerse(1, 1, <<>>)
  /\ isRecording' = FALSE
  /\ isProcessing' = FALSE
  /\ recording' = FALSE
  /\ testResult' = "null"
  /\ transcribedText' = <<>>
  /\ tasks' = tasks \cup {NewTask("loadProgress", mounts + 1, 0, "getSurah")}
  /\ UNCHANGED <<storage, homeVars, attempts, saves, completed>>
  /\ NothingEnds

\* the close button (navigation.goBack()) or the hardware back button
\* (handleCloseModal): the instance unmounts, HomeScreen regains focus and
\* reloads the progress; nothing suspended is cancelled
LeaveTest ==
  /\ screen = "Test"
  /\ screen' = "Home"
  /\ currentSurah' = 1
  /\ currentAyah' = 1
  /\ verseText' = <<>>
  /\ isRecording' = FALSE
  /\ isProcessing' = FALSE
  /\ recording' = FALSE
  /\ testResult' = "null"
  /\ transcribedText' = <<>>
  /\ tasks' = tasks \cup {NewTask("homeLoadProgress", 0, 0, "getSurah")}
  /\ UNCHANGED <<storage, mounts, homeVars, attempts, saves, completed>>
  /\ NothingEnds

(***************************************************************************)
(* TestScreen.loadProgress.                                                *)
(***************************************************************************)
LoadGetSurah(t) ==
  /\ t \in tasks /\ t.kind = "loadProgress" /\ t.pc = "getSurah"
  /\ tasks' = (tasks \ {t}) \cup {[t EXCEPT !.pc = "getAyah", !.saved = storage.currentSurah]}
  /\ UNCHANGED <<storage, screen, mounts, testVars, homeVars, attempts, saves, completed>>
  /\ NothingEnds

\* if (saved) setCurrent...(parseInt(saved))
Restored(saved, current) ==
  IF Truthy(saved) THEN ParseInt(saved.str) ELSE current

LoadGetAyah(t) ==
  /\ t \in tasks /\ t.kind = "loadProgress" /\ t.pc = "getAyah"
  /\ tasks' = tasks \ {t}
  /\ IF Mounted(t)
     THEN LET surah == Restored(t.saved, currentSurah)
              ayah == Restored(storage.currentAyah, currentAyah)
          IN /\ currentSurah' = surah
             /\ currentAyah' = ayah
             /\ verseText' = VerseTextAfter(surah, ayah)
             /\ loaded' = [who |-> "TestScreen", surah |-> t.saved,
                           ayah |-> storage.currentAyah,
                           setSurah |-> surah, setAyah |-> ayah]
     ELSE /\ UNCHANGED <<currentSurah, currentAyah, verseText>>
          /\ loaded' = [who |-> "unmounted", surah |-> t.saved,
                        ayah |-> storage.currentAyah, setSurah |-> 0, setAyah |-> 0]
  /\ UNCHANGED <<storage, screen, mounts, isRecording, isProcessing, recording,
                 testResult, transcribedText, homeVars, attempts, saves, completed>>
  /\ finished' = NoAttempt
  /\ UNCHANGED whisperService

(***************************************************************************)
(* Recording.                                                              *)
(***************************************************************************)
\* the record button is rendered: neither processing nor recording
RecordButtonShown == screen = "Test" /\ ~isProcessing /\ ~isRecording

\* the Stop & Test button is rendered
StopButtonShown == screen = "Test" /\ ~isProcessing /\ isRecording

\* startRecording with the permission granted and the recording created
\* (otherwise it returns or alerts and no state changes); a recording is
\* started only while the bound leaves an attempt to stop it
StartRecording ==
  /\ RecordButtonShown
  /\ attempts < MaxAttempts
  /\ recording' = TRUE
  /\ isRecording' = TRUE
  /\ UNCHANGED <<storage, screen, mounts, currentSurah, currentAyah, verseText,
                 isProcessing, testResult, transcribedText, homeVars, tasks,
                 attempts, saves, completed>>
  /\ NothingEnds

\* stopRecording up to await recording.stopAndUnloadAsync()
StopRecording ==
  /\ StopButtonShown
  /\ recording
  /\ attempts < MaxAttempts
  /\ attempts' = attempts + 1
  /\ isRecording' = FALSE
  /\ isProcessing' = TRUE
  /\ tasks' = tasks \cup
       {[NewTask("stopRecording", mounts, attempts + 1, "stopping")
           EXCEPT !.surah = currentSurah, !.ayah = currentAyah, !.target = verseText]}
  /\ UNCHANGED <<storage, screen, mounts, currentSurah, currentAyah, verseText,
                 recording, testResult, transcribedText, homeVars, saves, completed>>
  /\ NothingEnds

(***************************************************************************)
(* How an error thrown inside stopRecording's try reads.                   *)
(***************************************************************************)
\* stopAndUnloadAsync rejects, getURI() is null or the file does not exist:
\* three messages that name neither Whisper nor 'not available'
StoppingErrors == {"recordingFailed"}

\* checkHealth: healthy false, or healthy with model_loaded not true
HealthErrors == {"unavailable", "notLoaded"}

\* whisperServerService.transcribe throws: the request is aborted after the
\* timeout, fetch fails, the response is not ok, or result.success is false
\* (the audio file, found a moment before by stopRecording, is taken to exist)
TranscribeErrors == {"timeout", "network", "http", "notSuccess"}

\* errorMessage.includes('Model file not found') || .includes('Whisper')
\*   || .includes('not available')
MentionsWhisper(kind) == kind \in {"unavailable", "notLoaded", "network"}

\* the end of stopRecording: the verdict shown, then finally
EndScored(t, outcome, transcription, similarity, verdict, shown) ==
  /\ IF Mounted(t)
     THEN /\ testResult' = verdict
          /\ transcribedText' = shown
          /\ isProcessing' = FALSE
          /\ recording' = FALSE
     ELSE UNCHANGED <<testResult, transcribedText, isProcessing, recording>>
  /\ finished' = [id |-> t.id, gen |-> t.gen, outcome |-> outcome,
                  transcription |-> transcription, target |-> t.target,
                  similarity |-> similarity, verdict |-> verdict]
  /\ loaded' = NoLoad
  /\ UNCHANGED whisperService
  /\ UNCHANGED <<storage, screen, mounts, currentSurah, currentAyah, verseText,
                 isRecording, homeVars, attempts, saves, completed>>

\* the end of an attempt that computed no similarity
EndAttempt(t, outcome, transcription, verdict, shown) ==
  EndScored(t, outcome, transcription, NoScore, verdict, shown)

\* a catch block that sets the verdict, with no finally after it
CatchWithoutFinally(t, kind) ==
  /\ tasks' = tasks \ {t}
  /\ IF Mounted(t) THEN testResult' = "fail" ELSE UNCHANGED testResult
  /\ finished' = [id |-> t.id, gen |-> t.gen, outcome |-> kind,
                  transcription |-> <<>>, target |-> t.target,
                  similarity |-> NoScore, verdict |-> "fail"]
  /\ loaded' = NoLoad
  /\ UNCHANGED whisperService
  /\ UNCHANGED <<storage, screen, mounts, currentSurah, currentAyah, verseText,
                 isRecording, isProcessing, recording, transcribedText, homeVars,
                 attempts, saves, completed>>

\* the catch block
Catch(t, kind) ==
  /\ tasks' = tasks \ {t}
  /\ EndAttempt(t, kind, <<>>, "fail",
                IF MentionsWhisper(kind) THEN <<>> ELSE transcribedText)

Continue(t, pc) ==
  /\ tasks' = (tasks \ {t}) \cup {[t EXCEPT !.pc = pc]}
  /\ UNCHANGED <<storage, screen, mounts, testVars, homeVars, attempts, saves, completed>>
  /\ NothingEnds

\* recording.stopAndUnloadAsync(), getURI(), FileSystem.getInfoAsync(uri)
StopUnloaded(t) ==
  /\ t \in tasks /\ t.kind = "stopRecording" /\ t.pc = "stopping"
  /\ \/ Continue(t, "checkHealth")
     \/ \E kind \in StoppingErrors : Catch(t, kind)

\* a transcribeAudio that logs the answer of checkHealth and goes on
HealthCheckedAndIgnored(t) ==
  /\ t \in tasks /\ t.kind = "stopRecording" /\ t.pc = "checkHealth"
  /\ \/ Continue(t, "transcribe")
     \/ \E kind \in HealthErrors :
          /\ tasks' = (tasks \ {t}) \cup {[t EXCEPT !.pc = "transcribe"]}
          /\ finished' = [id |-> t.id, gen |-> t.gen, outcome |-> kind,
                          transcription |-> <<>>, target |-> t.target,
                          similarity |-> NoScore, verdict |-> "null"]
          /\ loaded' = NoLoad
          /\ UNCHANGED whisperService
          /\ UNCHANGED <<storage, screen, mounts, testVars, homeVars, attempts,
                         saves, completed>>

\* transcribeAudio: await whisperServerService.checkHealth()
HealthChecked(t) ==
  /\ t \in tasks /\ t.kind = "stopRecording" /\ t.pc = "checkHealth"
  /\ \/ Continue(t, "transcribe")
     \/ \E kind \in HealthErrors : Catch(t, kind)

\* !transcription || transcription.trim().length === 0
IsEmptyTranscription(transcription) == Trim(transcription) = <<>>

\* setTimeout(..., 2000) whatever the verdict
SchedulesAdvanceAlways(passed) == TRUE

\* if (passed) setTimeout(..., 2000)
SchedulesAdvance(passed) == passed

\* a try block in which an empty transcription passes and advances
CompareEmptyPasses(t, transcription) ==
  LET passed == IsEmptyTranscription(transcription)
                  \/ Passed(Similarity(transcription, t.target))
  IN /\ tasks' = (tasks \ {t}) \cup
          (IF SchedulesAdvance(passed)
           THEN {[t EXCEPT !.kind = "advance", !.pc = "timer",
                           !.verdict = IF passed THEN "pass" ELSE "fail"]}
           ELSE {})
     /\ EndAttempt(t, "text", transcription,
                   IF passed THEN "pass" ELSE "fail", transcription)

\* the rest of the try block once transcribeAudio returned `transcription`
Compare(t, transcription) ==
  IF IsEmptyTranscription(transcription)
  THEN /\ tasks' = tasks \ {t}
       /\ EndAttempt(t, "text", transcription, "fail", <<>>)
  ELSE LET similarity == Similarity(transcription, t.target)
           passed == Passed(similarity)
       IN /\ tasks' = (tasks \ {t}) \cup
               (IF SchedulesAdvance(passed)
                THEN {[t EXCEPT !.kind = "advance", !.pc = "timer",
                                !.verdict = IF passed THEN "pass" ELSE "fail"]}
                ELSE {})
          /\ EndScored(t, "text", transcription, similarity,
                       IF passed THEN "pass" ELSE "fail", transcription)

\* transcribeAudio: await whisperServerService.transcribe(audioUri, ...),
\* which returns transcribedText.trim()
TranscribeResolved(t) ==
  /\ t \in tasks /\ t.kind = "stopRecording" /\ t.pc = "transcribe"
  /\ \/ \E text \in ServerTexts(t.target) : Compare(t, Trim(text))
     \/ \E kind \in TranscribeErrors : Catch(t, kind)

(***************************************************************************)
(* moveToNextVerse and saveProgress, run by the timer of a pass.           *)
(***************************************************************************)
\* moveToNextVerse with currentAyah <= maxAyah
moveToNextVerseOffByOne(surah, ayah) ==
  IF ~NumLt(VerseCount(surah), ayah) /\ ayah # NaN
  THEN [branch |-> "nextAyah", surah |-> surah, ayah |-> ayah + 1]
  ELSE IF NumLt(surah, LastSurah)
       THEN [branch |-> "nextSurah", surah |-> surah + 1, ayah |-> 1]
       ELSE [branch |-> "completed", surah |-> surah, ayah |-> ayah]

\* what moveToNextVerse decides for the cursor (surah, ayah) of its closure
moveToNextVerse(surah, ayah) ==
  IF NumLt(ayah, VerseCount(surah))
  THEN [branch |-> "nextAyah", surah |-> surah, ayah |-> ayah + 1]
  ELSE IF NumLt(surah, LastSurah)
       THEN [branch |-> "nextSurah", surah |-> surah + 1, ayah |-> 1]
       ELSE [branch |-> "completed", surah |-> surah, ayah |-> ayah]

\* setTestResult(null); setTranscribedText('') after await moveToNextVerse()
ClearResult(t) ==
  IF Mounted(t)
  THEN testResult' = "null" /\ transcribedText' = <<>>
  ELSE UNCHANGED <<testResult, transcribedText>>

\* the timer fires: moveToNextVerse up to the first await of saveProgress
\* (setItem('currentSurah', ...) reaches the store), or the completion alert
TimerFired(t) ==
  /\ t \in tasks /\ t.kind = "advance" /\ t.pc = "timer"
  /\ LET next == moveToNextVerse(t.surah, t.ayah)
     IN IF next.branch = "completed"
        THEN /\ completed' = TRUE
             /\ tasks' = tasks \ {t}
             /\ ClearResult(t)
             /\ UNCHANGED <<storage, currentSurah, currentAyah, verseText, saves>>
        ELSE /\ IF Mounted(t)
                THEN LET surah == IF next.branch = "nextSurah"
                                  THEN next.surah ELSE currentSurah
                     IN /\ currentSurah' = surah
                        /\ currentAyah' = next.ayah
                        /\ verseText' = VerseTextAfter(surah, next.ayah)
                ELSE UNCHANGED <<currentSurah, currentAyah, verseText>>
             /\ storage' = [storage EXCEPT !.currentSurah = Item(toString(next.surah))]
             /\ saves' = Append(saves, StoreOf(next.surah, next.ayah))
             /\ tasks' = (tasks \ {t}) \cup
                  {[t EXCEPT !.pc = "setAyah", !.surah = next.surah, !.ayah = next.ayah]}
             /\ UNCHANGED <<testResult, transcribedText, completed>>
  /\ UNCHANGED <<screen, mounts, isRecording, isProcessing, recording, homeVars,
                 attempts>>
  /\ NothingEnds

\* saveProgress: setItem('currentAyah', ...) reaches the store, then the
\* timer callback clears the result
AyahSaved(t) ==
  /\ t \in tasks /\ t.kind = "advance" /\ t.pc = "setAyah"
  /\ storage' = [storage EXCEPT !.currentAyah = Item(toString(t.ayah))]
  /\ tasks' = tasks \ {t}
  /\ ClearResult(t)
  /\ UNCHANGED <<screen, mounts, currentSurah, currentAyah, verseText, isRecording,
                 isProcessing, recording, homeVars, attempts, saves, completed>>
  /\ NothingEnds

(***************************************************************************)
(* The specifications.                                                     *)
(***************************************************************************)
\* a tap of the user
Gesture ==
  \/ OpenTest
  \/ LeaveTest
  \/ StartRecording
  \/ StopRecording

\* a continuation of suspended work: a storage call, a server response or a
\* timer
Resume ==
  \/ \E t \in tasks : HomeGetSurah(t)
  \/ \E t \in tasks : HomeGetAyah(t)
  \/ \E t \in tasks : LoadGetSurah(t)
  \/ \E t \in tasks : LoadGetAyah(t)
  \/ \E t \in tasks : StopUnloaded(t)
  \/ \E t \in tasks : HealthChecked(t)
  \/ \E t \in tasks : TranscribeResolved(t)
  \/ \E t \in tasks : TimerFired(t)
  \/ \E t \in tasks : AyahSaved(t)

\* a loadProgress or a saveProgress is between its two AsyncStorage calls
StorageBusy ==
  \E t \in tasks : t.kind \in {"loadProgress", "homeLoadProgress"} \/ t.pc = "setAyah"

\* AsyncStorage answers within milliseconds: the user taps only while no
\* loadProgress and no saveProgress is under way.  Server responses and the
\* two-second timers come at any moment.
Next ==
  \/ ~StorageBusy /\ Gesture
  \/ Resume

Spec == Init /\ [][Next]_vars

SpecAnyStore == InitAnyStore /\ [][Next]_vars

\* What runs to its end whatever the server does: AsyncStorage calls, the
\* local calls of stopRecording, the two-second timers, and the transcribe
\* request, which its AbortController aborts after config.timeout.  The fetch
\* of checkHealth has no AbortController and nothing bounds it; the user is
\* not bound to tap.
Fairness ==
  /\ WF_vars(\E t \in tasks : HomeGetSurah(t))
  /\ WF_vars(\E t \in tasks : HomeGetAyah(t))
  /\ WF_vars(\E t \in tasks : LoadGetSurah(t))
  /\ WF_vars(\E t \in tasks : LoadGetAyah(t))
  /\ WF_vars(\E t \in tasks : StopUnloaded(t))
  /\ WF_vars(\E t \in tasks : TranscribeResolved(t))
  /\ WF_vars(\E t \in tasks : TimerFired(t))
  /\ WF_vars(\E t \in tasks : AyahSaved(t))

SpecLive == Init /\ [][Next]_vars /\ Fairness

\* Restoring only: the session starts from the store a saveProgress left for
\* any verse of the corpus, and the user opens and leaves TestScreen.
InitRestore == InitWith(CorpusStores)

NextRestore ==
  \/ ~StorageBusy /\ OpenTest
  \/ ~StorageBusy /\ LeaveTest
  \/ \E t \in tasks : HomeGetSurah(t)
  \/ \E t \in tasks : HomeGetAyah(t)
  \/ \E t \in tasks : LoadGetSurah(t)
  \/ \E t \in tasks : LoadGetAyah(t)

SpecRestore == InitRestore /\ [][NextRestore]_vars

\* Every interleaving the event loop allows: a tap may also fall between two
\* AsyncStorage calls.
NextFree == Gesture \/ Resume

SpecFree == Init /\ [][NextFree]_vars

(***************************************************************************)
(* calculateSimilarity on its own.  The verse text comes from the corpus   *)
(* file and the transcription from the server: here each is any text of at *)
(* most MaxLen characters over a small alphabet, and the transcription is  *)
(* also the verse text with one more diacritic of the whole range.         *)
(***************************************************************************)
MaxLen == 3

\* alef, beh, fatha, space
Alphabet == {1575, 1576, 1614, 32}

Strings == UNION { [1..n -> Alphabet] : n \in 0..MaxLen }

\* U+064B..U+065F and U+0670
Marks == (1611..1631) \cup {1648}

InsertAt(text, i, c) ==
  SubSeq(text, 1, i) \o <<c>> \o SubSeq(text, i + 1, Len(text))

\* TestScreen showing the verse `verseText`, stopRecording awaiting
\* transcribeAudio
InitShowing(texts) ==
  /\ storage = EmptyStore
  /\ screen = "Test"
  /\ mounts = 1
  /\ currentSurah = 1
  /\ currentAyah = 1
  /\ verseText \in texts
  /\ isRecording = FALSE
  /\ isProcessing = TRUE
  /\ recording = TRUE
  /\ testResult = "null"
  /\ transcribedText = <<>>
  /\ currentVerseIndex = 0
  /\ loading = FALSE
  /\ tasks = {[NewTask("stopRecording", 1, 1, "transcribe")
                 EXCEPT !.surah = 1, !.ayah = 1, !.target = verseText]}
  /\ attempts = 1
  /\ finished = NoAttempt
  /\ loaded = NoLoad
  /\ saves = <<storage>>
  /\ completed = FALSE
  /\ whisperService = NewService

InitTexts == InitShowing(Strings)

\* transcribeAudio returns any text
Recognized(t) ==
  /\ t \in tasks /\ t.kind = "stopRecording" /\ t.pc = "transcribe"
  /\ \E text \in Strings : Compare(t, text)

\* transcribeAudio returns the verse text with one diacritic added
RecognizedWithMarks(t) ==
  /\ t \in tasks /\ t.kind = "stopRecording" /\ t.pc = "transcribe"
  /\ \E i \in 0..Len(t.target) : \E c \in Marks :
       Compare(t, InsertAt(t.target, i, c))

NextTexts ==
  \/ \E t \in tasks : Recognized(t)
  \/ \E t \in tasks : RecognizedWithMarks(t)

SpecTexts == InitTexts /\ [][NextTexts]_vars

(***************************************************************************)
(* The on-device WhisperService (whisper.rn), a singleton no screen of     *)
(* this version calls: transcribe, the loadModel it awaits, release.       *)
(***************************************************************************)
\* how an attempt to call whisperService.transcribe ends: the promise of
\* whisper.rn resolved, it rejected and '' was returned, or the call threw
DeviceOutcomes == {"deviceText", "deviceError", "deviceRejected"}

\* if (!this.modelLoaded || !this.whisperContext)
NeedsModel == ~whisperService.modelLoaded \/ ~whisperService.whisperContext

\* the end of a call of transcribe
DeviceEnds(t, outcome, transcription) ==
  /\ tasks' = tasks \ {t}
  /\ finished' = [id |-> t.id, gen |-> t.gen, outcome |-> outcome,
                  transcription |-> transcription, target |-> t.target,
                  similarity |-> NoScore, verdict |-> "null"]
  /\ loaded' = NoLoad

\* whisperService.transcribe(audioUri) is called and runs to its first await
DeviceTranscribe ==
  /\ attempts < MaxAttempts
  /\ attempts' = attempts + 1
  /\ tasks' = tasks \cup
       {[NewTask("deviceTranscribe", 0, attempts + 1,
                 IF NeedsModel THEN "loadModel" ELSE "transcribe")
           EXCEPT !.target = Text(1, 1)]}
  /\ UNCHANGED <<storage, screen, mounts, testVars, homeVars, saves, completed>>
  /\ NothingEnds

\* await this.loadModel() settles: the model is loaded and transcribe goes on
\* into its try block, or loadModel rethrows what it caught, before the try
DeviceModelLoaded(t) ==
  /\ t \in tasks /\ t.kind = "deviceTranscribe" /\ t.pc = "loadModel"
  /\ \/ /\ whisperService' = [modelLoaded |-> TRUE, whisperContext |-> TRUE,
                               loadError |-> FALSE]
        /\ tasks' = (tasks \ {t}) \cup {[t EXCEPT !.pc = "transcribe"]}
        /\ finished' = NoAttempt
        /\ loaded' = NoLoad
     \/ /\ whisperService' = [whisperService EXCEPT !.loadError = TRUE]
        /\ DeviceEnds(t, "deviceRejected", <<>>)
  /\ UNCHANGED <<storage, screen, mounts, testVars, homeVars, attempts, saves,
                 completed>>

\* const result = await promise: the segments are joined and trimmed, or the
\* promise rejects and the catch block returns ''
DeviceRecognized(t) ==
  /\ t \in tasks /\ t.kind = "deviceTranscribe" /\ t.pc = "transcribe"
  /\ \/ \E text \in ServerTexts(t.target) : DeviceEnds(t, "deviceText", Trim(text))
     \/ DeviceEnds(t, "deviceError", <<>>)
  /\ UNCHANGED <<storage, screen, mounts, testVars, homeVars, attempts, saves,
                 completed, whisperService>>

\* whisperService.release()
DeviceRelease ==
  /\ whisperService.whisperContext
  /\ whisperService' = [whisperService EXCEPT !.whisperContext = FALSE,
                                               !.modelLoaded = FALSE]
  /\ finished' = NoAttempt
  /\ loaded' = NoLoad
  /\ UNCHANGED <<storage, screen, mounts, testVars, homeVars, tasks, attempts,
                 saves, completed>>

InitDevice == InitWith({EmptyStore})

NextDevice ==
  \/ DeviceTranscribe
  \/ \E t \in tasks : DeviceModelLoaded(t)
  \/ \E t \in tasks : DeviceRecognized(t)
  \/ DeviceRelease

SpecDevice == InitDevice /\ [][NextDevice]_vars

(***************************************************************************)
(* normalizeArabic on its own.  The verse text is any text of at most      *)
(* MaxLen characters among two Arabic letters, the space, U+FEFF, a Latin  *)
(* letter, a digit and a full stop; the transcription is the verse text    *)
(* itself or the verse text as normalizeArabic writes it.                  *)
(***************************************************************************)
\* alef, beh, space, U+FEFF, 'a', '1', '.'
MixedAlphabet == {1575, 1576, 32, 65279, 97, 49, 46}

MixedStrings == UNION { [1..n -> MixedAlphabet] : n \in 0..MaxLen }

InitMixed == InitShowing(MixedStrings)

\* transcribeAudio returns the verse text as it is shown
RecognizedVerse(t) ==
  /\ t \in tasks /\ t.kind = "stopRecording" /\ t.pc = "transcribe"
  /\ Compare(t, t.target)

\* transcribeAudio returns the verse text in its normalized form
RecognizedNormalized(t) ==
  /\ t \in tasks /\ t.kind = "stopRecording" /\ t.pc = "transcribe"
  /\ Compare(t, normalizeArabic(t.target))

NextMixed ==
  \/ \E t \in tasks : RecognizedVerse(t)
  \/ \E t \in tasks : RecognizedNormalized(t)

SpecMixed == InitMixed /\ [][NextMixed]_vars

(***************************************************************************)
(* Properties.                                                             *)
(***************************************************************************)
Cursor == <<currentSurah, currentAyah>>

\* C1: when stopRecording ends with a non-empty transcription, the verdict is
\* pass exactly when the similarity of the transcription and the verse text
\* is at least 70, and that verdict is the testResult shown.
C1_PassIffAtLeast70 ==
  (finished.outcome = "text" /\ Trim(finished.transcription) # <<>>) =>
    LET similarity == Similarity(finished.transcription, finished.target)
    IN /\ finished.verdict = "pass" <=> similarity.num >= 70 * similarity.den
       /\ finished.verdict = "fail" <=> similarity.num < 70 * similarity.den
       /\ (screen = "Test" /\ finished.gen = mounts) => testResult = finished.verdict

\* an attempt scored exactly 70 and passed
C1_Witness ==
  /\ finished.outcome = "text"
  /\ finished.verdict = "pass"
  /\ Similarity(finished.transcription, finished.target) = [num |-> 700, den |-> 10]
  /\ testResult = "pass"

\* C2: when the timer of a pass runs moveToNextVerse with the cursor (c, v):
\* if v is below the verse count of chapter c, (c, v+1) is handed to
\* saveProgress and becomes the cursor of the instance that still showed
\* (c, v); otherwise, if c < 114, the same holds of (c+1, 1); otherwise neither
\* the cursor nor the store changes.
C2_AdvanceRule ==
  [][\A t \in tasks :
       (t.kind = "advance" /\ t.pc = "timer" /\ t \notin tasks') =>
         LET c == t.surah
             v == t.ayah
             to == IF v < VerseCount(c) THEN <<c, v + 1>> ELSE <<c + 1, 1>>
         IN IF v < VerseCount(c) \/ c < 114
            THEN /\ \E u \in tasks' :
                      /\ u.id = t.id /\ u.pc = "setAyah"
                      /\ <<u.surah, u.ayah>> = to
                 /\ storage'.currentSurah = Item(toString(to[1]))
                 /\ (Mounted(t) /\ Cursor = <<c, v>>) => Cursor' = to
            ELSE Cursor' = Cursor /\ storage' = storage]_vars

\* the advance from (1, 7) gave (2, 1)
C2_Witness ==
  /\ screen = "Test"
  /\ Cursor = <<2, 1>>
  /\ \E t \in tasks :
       /\ t.kind = "advance" /\ t.pc = "setAyah" /\ Mounted(t)
       /\ t.surah = 2 /\ t.ayah = 1
  /\ saves = <<StoreOf(1, 7), StoreOf(2, 1)>>

\* C3: the step that ends an attempt with the verdict fail (a score below 70,
\* an empty transcription or an error) changes neither the cursor nor the
\* store and schedules no advance.
C3_FailKeepsCursor ==
  [][finished'.verdict = "fail" =>
       /\ Cursor' = Cursor
       /\ storage' = storage
       /\ \A u \in tasks' : u.kind = "advance" => u \in tasks]_vars

\* an attempt with a non-empty transcription failed on a mounted screen
C3_Witness ==
  /\ finished.verdict = "fail"
  /\ finished.outcome = "text"
  /\ finished.transcription # <<>>
  /\ screen = "Test" /\ finished.gen = mounts
  /\ testResult = "fail"

\* the cursor a store holds, a missing key read as the default 1
StoredCursor(store) ==
  <<Restored(store.currentSurah, 1), Restored(store.currentAyah, 1)>>

\* chapter-then-verse order
CursorLe(a, b) == a[1] < b[1] \/ (a[1] = b[1] /\ a[2] <= b[2])

\* C4: every cursor handed to saveProgress is at least every cursor stored
\* before it.
C4_StoredCursorNeverDecreases ==
  \A i, j \in 1..Len(saves) :
    i < j => CursorLe(StoredCursor(saves[i]), StoredCursor(saves[j]))

\* C5: once the completion alert was shown, the mounted screen no longer
\* tests the last verse of chapter 114 and HomeScreen, once reloaded, shows
\* the completion card.
C5_CompletedAfterLastVerse ==
  completed =>
    /\ screen = "Test" =>
         ~(Cursor = <<LastSurah, VerseCount(LastSurah)>>
           /\ verseText = Text(LastSurah, VerseCount(LastSurah)))
    /\ (screen = "Home" /\ ~loading
        /\ ~\E t \in tasks : t.kind = "homeLoadProgress") => GetCurrentVerseIsNull

\* the two values loadProgress read denote a verse of the corpus
ReadsVerse(load) ==
  /\ Truthy(load.surah) /\ Truthy(load.ayah)
  /\ HasVerse(ParseInt(load.surah.str), ParseInt(load.ayah.str))

\* C6: when TestScreen.loadProgress read a missing, malformed or out-of-range
\* pair, the cursor it leaves is (1, 1).
C6_RestoreDegradesToStart ==
  (loaded.who = "TestScreen" /\ ~ReadsVerse(loaded)) =>
    (<<loaded.setSurah, loaded.setAyah>> = <<1, 1>> /\ Cursor = <<1, 1>>)

\* C7: the cursor of the mounted TestScreen is a verse of the corpus (the
\* code has no Completed value for it).
C7_CursorInCorpus == screen = "Test" => HasVerse(currentSurah, currentAyah)

\* C8: a stopRecording or a timer of an instance that was left changes
\* neither the store nor the cursor in memory.
C8_AbandonedResultKeepsCursor ==
  [][\A t \in tasks :
       (t.kind \in {"stopRecording", "advance"} /\ ~Mounted(t) /\ t \notin tasks') =>
         (storage' = storage /\ Cursor' = Cursor)]_vars

\* C9: at most one whisperServer.transcribe request is in flight, over all
\* the instances of TestScreen the session has opened.
C9_OneTranscriptionInFlight ==
  Cardinality({t \in tasks : t.kind = "stopRecording" /\ t.pc = "transcribe"}) <= 1

\* C10: when a loadProgress of TestScreen or HomeScreen read a chapter and a
\* verse, the two are the pair of one saveProgress call (or the pair the
\* session started with), never the chapter of one and the verse of another.
C10_LoadSeesOneSave ==
  (loaded.who \in {"TestScreen", "HomeScreen"}
   /\ Truthy(loaded.surah) /\ Truthy(loaded.ayah)) =>
    \E i \in 1..Len(saves) :
      saves[i] = [currentSurah |-> loaded.surah, currentAyah |-> loaded.ayah]

\* C11: when the saveProgress of an advance returns while a TestScreen is
\* mounted and has restored its progress, the two stored keys hold the cursor
\* that screen has in memory; and
\* when the mounted instance itself advances, the step that first writes the
\* store has already set its cursor to the pair being saved.
C11_AdvancePersisted ==
  [][\A t \in tasks :
       (t.kind = "advance" /\ screen = "Test" /\ t \notin tasks') =>
         /\ (t.pc = "setAyah" /\ ~\E u \in tasks : u.kind = "loadProgress") =>
              storage' = StoreOf(currentSurah', currentAyah')
         /\ (t.pc = "timer" /\ Mounted(t) /\ storage' # storage) =>
              \E u \in tasks' : /\ u.id = t.id /\ u.pc = "setAyah"
                                /\ Cursor' = <<u.surah, u.ayah>>]_vars

\* the decimal strings saveProgress writes, by number
DecimalOf == [n \in 1..AllVersesLength |-> toString(n)]

\* C12: when TestScreen.loadProgress ends having read the two keys that
\* saveProgress(c, v) left for a verse (c, v) of the corpus, the cursor it
\* restores is exactly (c, v).
C12_SaveThenLoad ==
  loaded.who = "TestScreen" =>
    \A c \in 1..LastSurah :
      loaded.surah = Item(DecimalOf[c]) =>
        \A v \in 1..VerseCount(c) :
          loaded.ayah = Item(DecimalOf[v]) =>
            /\ <<loaded.setSurah, loaded.setAyah>> = <<c, v>>
            /\ Cursor = <<c, v>>
            /\ verseText = Text(c, v)

\* the pair saved for (2, 286) has been restored
C12_Witness ==
  /\ loaded.who = "TestScreen"
  /\ storage = StoreOf(2, 286)
  /\ loaded.surah = Item(<<"2">>) /\ loaded.ayah = Item(<<"2", "8", "6">>)
  /\ Cursor = <<2, 286>>

\* C13: when an attempt of the mounted instance ends because the transcribe
\* request timed out (no timer of an earlier pass pending), the verdict shown
\* is fail and the recognized text shown is empty.
C13_TimeoutShowsEmptyText ==
  (finished.outcome = "timeout" /\ screen = "Test" /\ finished.gen = mounts
   /\ ~\E t \in tasks : t.kind = "advance") =>
    (testResult = "fail" /\ transcribedText = <<>>)

\* C14: when an attempt of the mounted instance ends on a failure of the
\* provider (health check not healthy, model not loaded, request timed out,
\* network failure, HTTP error, success false), stopRecording has returned,
\* testResult is fail, isProcessing is false, the recording handle is cleared
\* and the record button is shown again.
C14_ProviderFailureReadyForRetry ==
  (finished.outcome \in HealthErrors \cup TranscribeErrors
   /\ screen = "Test" /\ finished.gen = mounts) =>
    /\ finished.verdict = "fail"
    /\ testResult = "fail"
    /\ ~isProcessing
    /\ ~recording
    /\ RecordButtonShown
    /\ ~\E t \in tasks : t.id = finished.id /\ t.gen = finished.gen

\* an attempt ended on an HTTP error and the record button is back
C14_Witness ==
  /\ finished.outcome = "http"
  /\ screen = "Test" /\ finished.gen = mounts
  /\ testResult = "fail"
  /\ RecordButtonShown

\* C15: a transcribe request is sent only in the step in which the health
\* check of the same attempt answered healthy with the model loaded; in the
\* step in which the health check answers otherwise the attempt ends, and no
\* request is sent for it.
C15_TranscribeOnlyAfterHealthy ==
  [][/\ \A u \in tasks' \ tasks :
          (u.kind = "stopRecording" /\ u.pc = "transcribe") =>
            /\ \E t \in tasks \ tasks' :
                 /\ t.id = u.id /\ t.gen = u.gen
                 /\ t.kind = "stopRecording" /\ t.pc = "checkHealth"
            /\ finished'.outcome = "none"
     /\ finished'.outcome \in HealthErrors =>
          /\ \E t \in tasks \ tasks' :
               /\ t.id = finished'.id /\ t.gen = finished'.gen /\ t.pc = "checkHealth"
          /\ ~\E u \in tasks' : u.id = finished'.id /\ u.gen = finished'.gen
          /\ finished'.verdict = "fail"]_vars

\* the health check found the model not loaded and the attempt is over
C15_Witness ==
  /\ finished.outcome = "notLoaded"
  /\ finished.verdict = "fail"
  /\ ~\E t \in tasks : t.id = finished.id /\ t.gen = finished.gen

\* C16: whenever the screen is processing a recording, it eventually stops
\* processing, whatever the server does.
C16_ProcessingEnds == isProcessing ~> ~isProcessing

\* C17: the step in which the provider returns an empty text (the server
\* sent nothing, or nothing but white space) ends the attempt in the try
\* block with the verdict fail whatever the target verse is: the cursor and
\* the store are unchanged, no advance is scheduled, and a mounted screen
\* shows fail with no text and is ready for the next recording.
C17_EmptyTextFails ==
  [][(finished'.outcome = "text" /\ IsEmptyTranscription(finished'.transcription)) =>
       /\ finished'.verdict = "fail"
       /\ Cursor' = Cursor
       /\ storage' = storage
       /\ \A u \in tasks' : u.kind = "advance" => u \in tasks
       /\ ~\E u \in tasks' : u.id = finished'.id /\ u.gen = finished'.gen
                             /\ u.kind = "stopRecording"
       /\ (screen = "Test" /\ finished'.gen = mounts) =>
            /\ testResult' = "fail"
            /\ transcribedText' = <<>>
            /\ ~isProcessing' /\ ~recording']_vars

\* an empty text was returned for a non-empty verse on the mounted screen
C17_Witness ==
  /\ finished.outcome = "text" /\ finished.transcription = <<>>
  /\ finished.target # <<>> /\ finished.target = verseText
  /\ screen = "Test" /\ finished.gen = mounts
  /\ testResult = "fail" /\ RecordButtonShown

\* a similarity of exactly 100
Is100(similarity) == similarity.den > 0 /\ similarity.num = 100 * similarity.den

WithoutMarks(text) == SelectSeq(text, LAMBDA c : c \notin Marks)

\* C18: when the transcription and the verse text have the same normalized
\* form, and in particular when they differ only by diacritics of
\* U+064B..U+065F and U+0670, calculateSimilarity returns exactly 100 and the
\* attempt that scored them passes; every text scores 100 against itself.
C18_EqualNormalizedScores100 ==
  finished.outcome = "text" =>
    /\ Is100(calculateSimilarity(finished.target, finished.target))
    /\ Is100(calculateSimilarity(finished.transcription, finished.transcription))
    /\ (\/ normalizeArabic(finished.transcription) = normalizeArabic(finished.target)
        \/ WithoutMarks(finished.transcription) = WithoutMarks(finished.target)) =>
         /\ Is100(calculateSimilarity(finished.transcription, finished.target))
         /\ finished.similarity # NoScore =>
              Is100(finished.similarity) /\ finished.verdict = "pass"

\* the verse text with a superscript alef added was scored 100 and passed
C18_Witness ==
  /\ finished.outcome = "text"
  /\ finished.target = <<1575, 1576>>
  /\ finished.transcription = <<1575, 1648, 1576>>
  /\ Is100(finished.similarity)
  /\ testResult = "pass"

\* The minimum number of single-character insertions, deletions and
\* substitutions that turn one normalized text into another.  A shortest edit
\* script can delete and substitute before it inserts, and inserts only
\* characters of its goal, so no text on the way is longer than MaxLen or
\* uses a character outside Letters.
Normalized == { normalizeArabic(text) : text \in Strings }

Letters == UNION { { text[i] : i \in 1..Len(text) } : text \in Normalized }

Edits(text) ==
  { SubSeq(text, 1, i - 1) \o SubSeq(text, i + 1, Len(text)) : i \in 1..Len(text) }
    \cup { [text EXCEPT ![i] = c] : i \in 1..Len(text), c \in Letters }
    \cup (IF Len(text) >= MaxLen THEN {}
          ELSE { InsertAt(text, i, c) : i \in 0..Len(text), c \in Letters })

\* the texts at most k edits away from a text of `texts`
RECURSIVE Within(_, _)
Within(texts, k) ==
  IF k = 0 THEN texts
  ELSE Within(texts \cup UNION { Edits(text) : text \in texts }, k - 1)

EditBalls == [a \in Normalized |-> [k \in 0..MaxLen |-> Within({a}, k)]]

EditDistance ==
  [a \in Normalized |->
     [b \in Normalized |->
        CHOOSE k \in 0..MaxLen :
          /\ b \in EditBalls[a][k]
          /\ \A j \in 0..(k - 1) : b \notin EditBalls[a][j]]]

\* C19: for a transcription and a verse text whose normalized forms differ,
\* matrix[len1][len2] is the minimum number of single-character edits between
\* the normalized forms, and the similarity of the attempt is
\* (maxLen - distance) / maxLen * 100, maxLen being the longer normalized
\* length.
C19_LevenshteinSimilarity ==
  finished.outcome = "text" =>
    LET normalized1 == normalizeArabic(finished.transcription)
        normalized2 == normalizeArabic(finished.target)
        maxLen == Max2(Len(normalized1), Len(normalized2))
        d == EditDistance[normalized1][normalized2]
    IN /\ Distance(normalized1, normalized2) = d
       /\ normalized1 # normalized2 =>
            /\ calculateSimilarity(finished.transcription, finished.target)
                 = [num |-> (maxLen - d) * 100, den |-> maxLen]
            /\ finished.similarity # NoScore =>
                 finished.similarity = [num |-> (maxLen - d) * 100, den |-> maxLen]

\* two texts of three letters, two edits apart, scored 100 / 3
C19_Witness ==
  /\ finished.outcome = "text"
  /\ finished.target = <<1575, 1576, 1576>>
  /\ finished.transcription = <<1576, 1576, 1575>>
  /\ finished.similarity = [num |-> 100, den |-> 3]
  /\ testResult = "fail"

\* C20: the similarity of the transcription to the verse text is the
\* similarity of the verse text to the transcription.
C20_Symmetric ==
  finished.outcome = "text" =>
    /\ calculateSimilarity(finished.transcription, finished.target)
         = calculateSimilarity(finished.target, finished.transcription)
    /\ finished.similarity # NoScore =>
         finished.similarity
           = calculateSimilarity(finished.target, finished.transcription)

\* texts of different normalized lengths were scored
C20_Witness ==
  /\ finished.outcome = "text"
  /\ finished.transcription = <<1575>>
  /\ finished.target = <<1575, 1614, 1576>>
  /\ finished.similarity = calculateSimilarity(finished.target, finished.transcription)
  /\ finished.similarity = [num |-> 100, den |-> 2]

\* 0 <= similarity <= 100, similarity being a quotient by a positive number
InRange(similarity) ==
  /\ similarity.den > 0
  /\ 0 <= similarity.num
  /\ similarity.num <= 100 * similarity.den

\* C21: whatever the transcription and the verse text, calculateSimilarity
\* divides by a positive length and returns a number from 0 to 100, in
\* either order of its arguments; so is the similarity an attempt scored.
C21_SimilarityInRange ==
  finished.outcome = "text" =>
    /\ InRange(calculateSimilarity(finished.transcription, finished.target))
    /\ InRange(calculateSimilarity(finished.target, finished.transcription))
    /\ finished.similarity # NoScore => InRange(finished.similarity)

\* two texts with no letter in common were scored 0
C21_Witness ==
  /\ finished.outcome = "text"
  /\ finished.transcription = <<1575, 1575, 1575>>
  /\ finished.target = <<1576, 1576, 1576>>
  /\ finished.similarity = [num |-> 0, den |-> 3]

IsZero(similarity) == similarity.den > 0 /\ similarity.num = 0

\* one of the two texts is the empty string
OneIsEmpty(text1, text2) ==
  (text1 = <<>> /\ text2 # <<>>) \/ (text2 = <<>> /\ text1 # <<>>)

\* C22 as stated: the similarity of the empty string and a non-empty string
\* is 0, in either order.
C22_EmptyAgainstNonEmpty ==
  (finished.outcome = "text"
   /\ OneIsEmpty(finished.transcription, finished.target)) =>
    /\ IsZero(calculateSimilarity(finished.transcription, finished.target))
    /\ IsZero(calculateSimilarity(finished.target, finished.transcription))
    /\ finished.similarity # NoScore => IsZero(finished.similarity)

\* C22 amended: the similarity of the empty string and a string whose
\* normalized form is not empty is 0, in either order, and the division is
\* by the positive length of that normalized form.
C22_EmptyAgainstArabic ==
  (finished.outcome = "text"
   /\ OneIsEmpty(finished.transcription, finished.target)
   /\ normalizeArabic(finished.transcription) # normalizeArabic(finished.target)) =>
    /\ IsZero(calculateSimilarity(finished.transcription, finished.target))
    /\ IsZero(calculateSimilarity(finished.target, finished.transcription))
    /\ finished.similarity # NoScore => IsZero(finished.similarity)

\* a transcription of two letters was scored 0 against an empty verse text
C22_Witness ==
  /\ finished.outcome = "text"
  /\ finished.target = <<>>
  /\ finished.transcription = <<1575, 1576>>
  /\ IsZero(finished.similarity)
  /\ testResult = "fail"

\* C23: normalizing the normalized form of the verse text or of the
\* transcription changes nothing, so a transcription that is the normalized
\* verse text is scored 100.
C23_NormalizeIdempotent ==
  finished.outcome = "text" =>
    /\ normalizeArabic(normalizeArabic(finished.target))
         = normalizeArabic(finished.target)
    /\ normalizeArabic(normalizeArabic(finished.transcription))
         = normalizeArabic(finished.transcription)
    /\ (finished.transcription = normalizeArabic(finished.target)
        /\ finished.similarity # NoScore) => Is100(finished.similarity)

\* a letter that normalizeArabic keeps and that is neither a mark nor white space
IsLetter(c) == IsArabicBlock(c) /\ c \notin Marks /\ ~IsWhiteSpace(c)

\* text[from..to] are all letters
IsWord(text, from, to) ==
  from <= to /\ \A k \in from..to : IsLetter(text[k])

\* C24: a verse text made of two Arabic words with a run of white space
\* between them is normalized to the two words with exactly one space
\* between them.
C24_OneSpaceBetweenWords ==
  finished.outcome = "text" =>
    LET text == finished.target
    IN \A i \in 1..Len(text) : \A j \in 1..Len(text) :
         (/\ i + 1 < j
          /\ IsWord(text, 1, i)
          /\ \A k \in (i + 1)..(j - 1) : IsWhiteSpace(text[k])
          /\ IsWord(text, j, Len(text))) =>
           normalizeArabic(text)
             = SubSeq(text, 1, i) \o <<32>> \o SubSeq(text, j, Len(text))

\* Latin letters, digits and punctuation of ASCII, and white space
IsNoise(c) == (33 <= c /\ c <= 126) \/ IsWhiteSpace(c)

\* C25: a verse text or a transcription made only of Latin letters, digits,
\* punctuation and white space, the empty one included, is normalized to the
\* empty string.
C25_NonArabicNormalizesToEmpty ==
  finished.outcome = "text" =>
    /\ (\A k \in 1..Len(finished.target) : IsNoise(finished.target[k])) =>
         normalizeArabic(finished.target) = <<>>
    /\ (\A k \in 1..Len(finished.transcription) :
          IsNoise(finished.transcription[k])) =>
         normalizeArabic(finished.transcription) = <<>>

\* the verse text 'a1.' was compared with itself: both normalized forms are
\* empty, hence equal
C25_Witness ==
  /\ finished.outcome = "text"
  /\ finished.target = <<97, 49, 46>>
  /\ finished.transcription = <<97, 49, 46>>
  /\ normalizeArabic(finished.target) = <<>>
  /\ finished.similarity = [num |-> 100, den |-> 1]

\* C26: a call of the on-device transcribe never throws: when recognition
\* fails or the model cannot be loaded it returns the empty string.
C26_DeviceTranscribeNeverThrows ==
  finished.outcome \in DeviceOutcomes =>
    /\ finished.outcome # "deviceRejected"
    /\ finished.outcome = "deviceError" => finished.transcription = <<>>

\* the verse after the verse at p: the next verse of its chapter, or the
\* first verse of the next chapter
Successor(p) ==
  IF p[2] < VerseCount(p[1]) THEN <<p[1], p[2] + 1>> ELSE <<p[1] + 1, 1>>

\* C27: while one TestScreen instance stays mounted, every change of its
\* cursor made after its loadProgress is made by the timer of one of its own
\* attempts whose verdict was pass and whose target was the text of the verse
\* at the cursor p before the change, and leads to the successor of p; so
\* passes whose timers overlap move the cursor once per verse passed.
C27_NoVerseSkipped ==
  [][(/\ screen = "Test" /\ screen' = "Test" /\ mounts' = mounts
      /\ loaded'.who = "none"
      /\ Cursor' # Cursor) =>
       /\ Cursor' = Successor(Cursor)
       /\ \E t \in tasks \ tasks' :
            /\ t.kind = "advance" /\ t.pc = "timer" /\ Mounted(t)
            /\ t.verdict = "pass"
            /\ <<t.surah, t.ayah>> = Cursor
            /\ t.target = Text(currentSurah, currentAyah)
            /\ t.target = verseText]_vars

\* C28: whenever TestScreen is shown (the effect that runs loadCurrentVerse
\* has run for the cursor of every render), the cursor is a verse of the
\* corpus and verseText is the text of that verse; it is not empty.
C28_VerseTextIsCursorVerse ==
  screen = "Test" =>
    /\ HasVerse(currentSurah, currentAyah)
    /\ verseText = Text(currentSurah, currentAyah)
    /\ verseText # <<>>

\* an attempt of the mounted instance made after attempt t has ended, so the
\* result on the screen is no longer the result of t
LaterAttemptEnded(t) ==
  \E id \in (t.id + 1)..attempts :
    ~\E u \in tasks : u.kind = "stopRecording" /\ u.id = id

\* C29: the timer callback of a pass, when a later attempt of the same
\* instance has ended in the meantime, changes neither testResult nor
\* transcribedText.
C29_TimerKeepsLaterResult ==
  [][\A t \in tasks \ tasks' :
       (t.kind = "advance" /\ Mounted(t) /\ LaterAttemptEnded(t)) =>
         (testResult' = testResult /\ transcribedText' = transcribedText)]_vars

\* both screens have run loadProgress on the store the session started with
BothRestored ==
  /\ screen = "Test"
  /\ Len(saves) = 1
  /\ ~loading
  /\ ~\E t \in tasks : t.kind \in {"loadProgress", "homeLoadProgress"}

\* C30: once HomeScreen and TestScreen have both restored from the same
\* stored values, the verse HomeScreen shows (allVerses[currentVerseIndex])
\* is the verse at the cursor of TestScreen.
C30_ScreensRestoreSameVerse ==
  BothRestored => FindIndex(currentSurah, currentAyah) = currentVerseIndex

=============================================================================
